---- MODULE Spec2Model ----
(***************************************************************************)
(* MediRemind SA (src/app.py): the WhatsApp webhook, the add_patient form, *)
(* the three tables, and the reminder_worker polling loop.                 *)
(*                                                                         *)
(* Strings the code takes apart (the From field, the message body, the     *)
(* comma separated times field) are sequences of tokens; every other       *)
(* string is a TLA+ string.  The wall clock counts ticks, TicksPerMin      *)
(* ticks to the minute and MinPerDay minutes to the day.                   *)
(***************************************************************************)
EXTENDS Integers, Sequences, FiniteSets, Bags, TLC

\* ---------------------------------------------------------------- bounds
MaxTime == 6
TicksPerMin == 2
MinPerDay == 2
Threads == 2
MaxRows == 3

\* ------------------------------------------------------------ input sets
Phones == {"+27821", "+27822"}
\* request.form['From'], as Twilio sends it
Froms == {<<"whatsapp:", p>> : p \in Phones}
\* request.form['Body']
Bodies == {<<"TAKEN">>, <<" ", "TAKEN">>, <<"1">>}
\* request.form['language'] and request.form['times'] of add_patient
AddInputs ==
    { [language |-> "english", times |-> <<"00:00", ",", "00:00">>],
      [language |-> "zulu",    times |-> <<"00:01", ",", " ", "00:00">>],
      [language |-> "xhosa",   times |-> <<"00:00", ",", "00:01">>] }
MedName == "ARV"
Dosage == "1 tablet"
\* Adherence.scheduled_time of stored records: a time of the first day and a
\* time of the second day
ScheduledTimes == {0, TicksPerMin * MinPerDay}

VARIABLES
    patients,      \* table Patient, in id order
    medications,   \* table Medication, in id order
    adherence,     \* table Adherence, in id order
    now,           \* the wall clock, in ticks
    w_pc,          \* reminder_worker: "sleep" (in time.sleep) or "loop" (in the for loop)
    w_wake,        \* the tick at which the current time.sleep(60) has elapsed
    w_at,          \* the tick at which the last scan read datetime.now()
    w_due,         \* due_meds of the last scan: ids of Medication rows
    w_i,           \* position of the for loop in due_meds
    w_err,         \* the last scan ended in the except branch
    w_ret,         \* what the worker's last send_whatsapp call returned
    w_api,         \* how the messaging API answered that call
    sent,          \* bag of the worker's send_whatsapp calls
    pending,       \* bag of the /whatsapp requests between their query and their commit
    last           \* the HTTP request that finished last, and its outcome

vars == <<patients, medications, adherence, now, w_pc, w_wake, w_at, w_due, w_i,
          w_err, w_ret, w_api, sent, pending, last>>

dbVars == <<patients, medications, adherence>>
workerVars == <<w_pc, w_wake, w_at, w_due, w_i, w_err, w_ret, w_api, sent>>
webVars == <<pending, last>>

\* ------------------------------------------------------------- MESSAGES
MESSAGES ==
    [ english |->
        [ welcome |-> "en:welcome", medication_ask |-> "en:medication_ask",
          dosage_ask |-> "en:dosage_ask", schedule_ask |-> "en:schedule_ask",
          confirmation |-> "en:confirmation", reminder |-> "en:reminder",
          taken_confirmation |-> "en:taken_confirmation", help |-> "en:help" ],
      zulu |->
        [ welcome |-> "zu:welcome", medication_ask |-> "zu:medication_ask",
          confirmation |-> "zu:confirmation", reminder |-> "zu:reminder",
          taken_confirmation |-> "zu:taken_confirmation" ] ]

\* MESSAGES[lang][key] does not raise KeyError
HasMessage(lang, key) ==
    /\ lang \in DOMAIN MESSAGES
    /\ key \in DOMAIN MESSAGES[lang]

\* ------------------------------------------------------- string helpers
\* a From that is passed on as it came
KeepWhatsapp(from) == from

\* str.replace('whatsapp:', ''): every occurrence is removed
StripWhatsapp(from) == SelectSeq(from, LAMBDA tok : tok # "whatsapp:")

RECURSIVE LStrip(_)
LStrip(s) == IF s # <<>> /\ Head(s) = " " THEN LStrip(Tail(s)) ELSE s

RECURSIVE RStrip(_)
RStrip(s) ==
    IF s # <<>> /\ s[Len(s)] = " " THEN RStrip(SubSeq(s, 1, Len(s) - 1)) ELSE s

\* str.strip()
Strip(s) == RStrip(LStrip(s))

\* a times string stored as one piece
NoSplit(s) == <<s>>

\* str.split(','): the pieces between the commas, empty pieces included
RECURSIVE SplitComma(_)
SplitComma(s) ==
    IF \E i \in DOMAIN s : s[i] = ","
    THEN LET i == CHOOSE k \in DOMAIN s :
                      s[k] = "," /\ \A j \in 1..(k - 1) : s[j] # ","
         IN  <<SubSeq(s, 1, i - 1)>> \o SplitComma(SubSeq(s, i + 1, Len(s)))
    ELSE <<s>>

\* ---------------------------------------------------------------- clock
\* the minutes of a day as strftime prints them
HM == <<"00:00", "00:01", "00:02", "00:03">>

\* minutes elapsed since tick 0
AbsMin(t) == t \div TicksPerMin

\* datetime.now().strftime('%H:%M') at tick t
Strftime(t) == HM[(AbsMin(t) % MinPerDay) + 1]

\* a worker that does not sleep between two scans
SleepNone(t) == t

\* time.sleep(60) called at tick t returns no earlier than this tick
SleepUntil(t) == t + TicksPerMin

\* ------------------------------------------------------------- database
\* Patient.query.filter_by(phone=ph)
PatientIds(ph) == {i \in DOMAIN patients : patients[i].phone = ph}

\* ... .first()
FirstPatient(ph) ==
    patients[CHOOSE i \in PatientIds(ph) : \A j \in PatientIds(ph) : i <= j]

\* a Patient table without the unique constraint
NotUnique(ph) == FALSE

\* the unique constraint on Patient.phone rejects the insert (IntegrityError)
PhoneTaken(ph) == PatientIds(ph) # {}

\* Patient(phone=..., conversation_state='language_selection'): language takes
\* its default, conversation_data stays NULL
NewWebhookPatient(ph) ==
    [phone |-> ph, language |-> "english", conversation_state |-> "language_selection",
     conversation_data |-> "NULL"]

NewFormPatient(ph, lang) ==
    [phone |-> ph, language |-> lang, conversation_state |-> "active",
     conversation_data |-> "NULL"]

NewMedication(ph, times) ==
    [patient_phone |-> ph, name |-> MedName, dosage |-> Dosage,
     times |-> SplitComma(times), active |-> TRUE]

\* rows a database file kept from an earlier run: a patient whose medication
\* was switched off
SeedPatient == NewFormPatient(<<"+27821">>, "english")
SeedMedication ==
    [patient_phone |-> <<"+27821">>, name |-> MedName, dosage |-> Dosage,
     times |-> <<(<<"00:00">>), (<<"00:01">>)>>, active |-> FALSE]

\* ------------------------------------------------------- send_whatsapp
\* how twilio_client.messages.create answers
ApiAnswer(apiOk) == IF apiOk THEN "ok" ELSE "failed"

\* a send_whatsapp that tries a failed message once more
ApiCallsRetry(apiOk) == IF apiOk THEN 1 ELSE 2

\* the messages.create calls one send_whatsapp call makes
ApiCalls(apiOk) == 1

\* what send_whatsapp returns: True after the call, False from its except branch
SendWhatsapp(apiOk) == IF apiOk THEN "True" ELSE "False"

\* ----------------------------------------------------------------- Init
NoRequest ==
    [op |-> "none", from |-> <<>>, number |-> <<>>, msg |-> <<>>, known |-> FALSE,
     raised |-> FALSE, persisted |-> FALSE, sends |-> 0, to |-> <<>>, reply |-> "",
     ret |-> "none", api |-> "none", attempts |-> 0, streak |-> 0, resp |-> "",
     times |-> <<>>, stats |-> <<>>]

\* init_app: db.create_all() keeps the rows of an existing database file, then
\* the one worker thread is started and enters its loop
Init ==
    /\ \/ patients = <<>> /\ medications = <<>>
       \/ patients = <<SeedPatient>> /\ medications = <<SeedMedication>>
    /\ adherence = <<>>
    /\ now = 0
    /\ w_pc = "sleep"
    /\ w_wake = 0
    /\ w_at = 0
    /\ w_due = <<>>
    /\ w_i = 1
    /\ w_err = FALSE
    /\ w_ret = "none"
    /\ w_api = "none"
    /\ sent = EmptyBag
    /\ pending = EmptyBag
    /\ last = NoRequest

\* ---------------------------------------------------------------- clock
\* the wall clock advances
Tick ==
    /\ now < MaxTime
    /\ now' = now + 1
    /\ UNCHANGED <<dbVars, workerVars, webVars>>

\* ------------------------------------------------------ reminder_worker
\* Medication.query.filter_by(active=True).all(), as row ids in id order
RECURSIVE ActiveIds(_)
ActiveIds(n) ==
    IF n = 0 THEN <<>>
    ELSE IF medications[n].active THEN Append(ActiveIds(n - 1), n)
         ELSE ActiveIds(n - 1)

\* a query that leaves out filter_by(active=True)
AllMeds == [n \in 1..Len(medications) |-> n]

DueMeds == ActiveIds(Len(medications))

\* med.times and current_time in med.times
IsDue(med, current_time) ==
    /\ med.times # <<>>
    /\ \E k \in DOMAIN med.times : med.times[k] = <<current_time>>

\* the medication the for loop is at
CurMed == medications[w_due[w_i]]

\* top of the loop: current_time is read and the active medications are queried
WorkerScan ==
    /\ w_pc = "sleep"
    /\ now >= w_wake
    /\ w_pc' = "loop"
    /\ w_at' = now
    /\ w_due' = DueMeds
    /\ w_i' = 1
    /\ UNCHANGED <<dbVars, now, w_wake, w_err, w_ret, w_api, sent, webVars>>

\* top of the loop, the query raises (no application context in the thread, or
\* a database error): except branch, time.sleep(60)
WorkerQueryRaise ==
    /\ w_pc = "sleep"
    /\ now >= w_wake
    /\ w_at' = now
    /\ w_due' = <<>>
    /\ w_i' = 1
    /\ w_err' = TRUE
    /\ w_wake' = SleepUntil(now)
    /\ UNCHANGED <<dbVars, now, w_pc, w_ret, w_api, sent, webVars>>

\* loop body, the medication is not due or its patient is not stored
WorkerSkip ==
    /\ w_pc = "loop"
    /\ w_i <= Len(w_due)
    /\ ~(IsDue(CurMed, Strftime(w_at)) /\ PatientIds(CurMed.patient_phone) # {})
    /\ w_i' = w_i + 1
    /\ UNCHANGED <<dbVars, now, w_pc, w_wake, w_at, w_due, w_err, w_ret, w_api, sent, webVars>>

\* loop body, the medication is due: the reminder is formatted and sent
WorkerSend(apiOk) ==
    /\ w_pc = "loop"
    /\ w_i <= Len(w_due)
    /\ IsDue(CurMed, Strftime(w_at))
    /\ PatientIds(CurMed.patient_phone) # {}
    /\ LET patient == FirstPatient(CurMed.patient_phone)
           call == [med |-> w_due[w_i], minute |-> AbsMin(w_at),
                    to |-> patient.phone, msg |-> MESSAGES[patient.language].reminder,
                    attempts |-> ApiCalls(apiOk)]
       IN  /\ HasMessage(patient.language, "reminder")
           /\ sent' = sent (+) SetToBag({call})
    /\ w_ret' = SendWhatsapp(apiOk)
    /\ w_api' = ApiAnswer(apiOk)
    /\ w_i' = w_i + 1
    /\ UNCHANGED <<dbVars, now, w_pc, w_wake, w_at, w_due, w_err, webVars>>

\* a worker without the except branch: the KeyError ends the thread
WorkerDies ==
    /\ w_pc = "loop"
    /\ w_i <= Len(w_due)
    /\ IsDue(CurMed, Strftime(w_at))
    /\ PatientIds(CurMed.patient_phone) # {}
    /\ ~HasMessage(FirstPatient(CurMed.patient_phone).language, "reminder")
    /\ w_pc' = "dead"
    /\ w_err' = TRUE
    /\ w_wake' = SleepUntil(now)
    /\ UNCHANGED <<dbVars, now, w_at, w_due, w_i, w_ret, w_api, sent, webVars>>

\* loop body, the medication is due and MESSAGES has no reminder for the
\* patient's language: KeyError leaves the for loop, except branch, time.sleep(60)
WorkerKeyError ==
    /\ w_pc = "loop"
    /\ w_i <= Len(w_due)
    /\ IsDue(CurMed, Strftime(w_at))
    /\ PatientIds(CurMed.patient_phone) # {}
    /\ ~HasMessage(FirstPatient(CurMed.patient_phone).language, "reminder")
    /\ w_pc' = "sleep"
    /\ w_err' = TRUE
    /\ w_wake' = SleepUntil(now)
    /\ UNCHANGED <<dbVars, now, w_at, w_due, w_i, w_ret, w_api, sent, webVars>>

\* the for loop is through: time.sleep(60)
WorkerSleep ==
    /\ w_pc = "loop"
    /\ w_i > Len(w_due)
    /\ w_pc' = "sleep"
    /\ w_err' = FALSE
    /\ w_wake' = SleepUntil(now)
    /\ UNCHANGED <<dbVars, now, w_at, w_due, w_i, w_ret, w_api, sent, webVars>>

Worker ==
    \/ WorkerScan
    \/ WorkerQueryRaise
    \/ WorkerSkip
    \/ \E apiOk \in BOOLEAN : WorkerSend(apiOk)
    \/ WorkerKeyError
    \/ WorkerSleep

\* ----------------------------------------------------- whatsapp_webhook
EmptyResponse == "<Response></Response>"
ErrorResponse == "<Response><Message>System error. Please try again.</Message></Response>"
\* an exception that leaves a view: Flask answers 500
ServerError == "500 Internal Server Error"

\* a route without the except branch
WebhookReraise == ServerError

\* what the route hands back when its try block raised
WebhookExcept == ErrorResponse

\* Body and From are read
Accept(from, body) ==
    [NoRequest EXCEPT !.op = "whatsapp", !.from = from,
                      !.number = StripWhatsapp(from), !.msg = Strip(body)]

\* bookkeeping: a number's first message and the messages of that number handled
\* right after it, counted up to 5 (the first message and four answers); 0 when
\* the run of messages did not start with the number's first message
Streak(r) ==
    IF ~r.known THEN 1
    ELSE IF /\ last.op = "whatsapp"
            /\ ~last.raised
            /\ last.number = r.number
            /\ last.streak > 0
         THEN IF last.streak < 5 THEN last.streak + 1 ELSE last.streak
         ELSE 0

\* the try block ran through: one send_whatsapp(from_number, response), then return
Replied(r, reply, apiOk) ==
    [r EXCEPT !.sends = r.sends + 1, !.to = r.number, !.reply = reply,
              !.ret = SendWhatsapp(apiOk), !.api = ApiAnswer(apiOk),
              !.attempts = r.attempts + ApiCalls(apiOk), !.streak = Streak(r),
              !.resp = EmptyResponse]

\* the try block raised before send_whatsapp: except branch
Raised(r) == [r EXCEPT !.raised = TRUE, !.resp = WebhookExcept]

\* a request thread is free
ThreadFree == BagCardinality(pending) < Threads

\* a handle_conversation that moves a stored patient on to the 'active' state
WebhookAdvance(from, body, apiOk) ==
    /\ ThreadFree
    /\ LET r == [Accept(from, body) EXCEPT !.known = TRUE]
       IN  /\ PatientIds(r.number) # {}
           /\ HasMessage(FirstPatient(r.number).language, "help")
           /\ last' = Replied(r, MESSAGES[FirstPatient(r.number).language].help, apiOk)
           /\ patients' = [i \in DOMAIN patients |->
                             IF patients[i].phone = r.number
                             THEN [patients[i] EXCEPT !.conversation_state = "active"]
                             ELSE patients[i]]
    /\ UNCHANGED <<medications, adherence, now, workerVars, pending>>

\* a request from a stored patient: handle_conversation answers with the help
\* text of the patient's language, which is sent
WebhookKnown(from, body, apiOk) ==
    /\ ThreadFree
    /\ LET r == [Accept(from, body) EXCEPT !.known = TRUE]
       IN  /\ PatientIds(r.number) # {}
           /\ HasMessage(FirstPatient(r.number).language, "help")
           /\ last' = Replied(r, MESSAGES[FirstPatient(r.number).language].help, apiOk)
    /\ UNCHANGED <<dbVars, now, workerVars, pending>>

\* a request from a stored patient whose language has no help text: KeyError
WebhookKeyError(from, body) ==
    /\ ThreadFree
    /\ LET r == [Accept(from, body) EXCEPT !.known = TRUE]
       IN  /\ PatientIds(r.number) # {}
           /\ ~HasMessage(FirstPatient(r.number).language, "help")
           /\ last' = Raised(r)
    /\ UNCHANGED <<dbVars, now, workerVars, pending>>

\* a request from a number with no stored patient: the query comes back empty
WebhookUnknown(from, body) ==
    /\ ThreadFree
    /\ LET r == Accept(from, body)
       IN  /\ PatientIds(r.number) = {}
           /\ pending' = pending (+) SetToBag({r})
    /\ UNCHANGED <<dbVars, now, workerVars, last>>

\* ... the new patient is committed and the English welcome is sent
WebhookCommit(r, apiOk) ==
    /\ BagIn(r, pending)
    /\ ~PhoneTaken(r.number)
    /\ patients' = Append(patients, NewWebhookPatient(r.number))
    /\ pending' = pending (-) SetToBag({r})
    /\ last' = [Replied(r, MESSAGES.english.welcome, apiOk) EXCEPT !.persisted = TRUE]
    /\ UNCHANGED <<medications, adherence, now, workerVars>>

\* ... the commit hits the unique constraint (the number was stored meanwhile)
WebhookIntegrityError(r) ==
    /\ BagIn(r, pending)
    /\ PhoneTaken(r.number)
    /\ pending' = pending (-) SetToBag({r})
    /\ last' = Raised(r)
    /\ UNCHANGED <<dbVars, now, workerVars>>

Webhook ==
    \/ \E from \in Froms, body \in Bodies, apiOk \in BOOLEAN :
           WebhookKnown(from, body, apiOk)
    \/ \E from \in Froms, body \in Bodies : WebhookKeyError(from, body)
    \/ \E from \in Froms, body \in Bodies : WebhookUnknown(from, body)
    \/ \E r \in BagToSet(pending), apiOk \in BOOLEAN : WebhookCommit(r, apiOk)
    \/ \E r \in BagToSet(pending) : WebhookIntegrityError(r)

\* ---------------------------------------------------------- add_patient
Added == "Patient added successfully!"

\* the form fields are read
Post(phone) == [NoRequest EXCEPT !.op = "add_patient", !.number = phone]

\* POST for a new number: both rows are committed, the confirmation is sent
AddPatient(phone, language, times, apiOk) ==
    /\ ~PhoneTaken(phone)
    /\ HasMessage(language, "confirmation")
    /\ patients' = Append(patients, NewFormPatient(phone, language))
    /\ medications' = Append(medications, NewMedication(phone, times))
    /\ last' = [Post(phone) EXCEPT !.times = times,
                                   !.persisted = TRUE, !.sends = 1, !.to = phone,
                                   !.reply = MESSAGES[language].confirmation,
                                   !.ret = SendWhatsapp(apiOk),
                                   !.api = ApiAnswer(apiOk),
                                   !.attempts = ApiCalls(apiOk), !.resp = Added]
    /\ UNCHANGED <<adherence, now, workerVars, pending>>

\* POST for a new number in a language MESSAGES does not hold: both rows are
\* committed, then the confirmation lookup raises KeyError
AddPatientKeyError(phone, language, times) ==
    /\ ~PhoneTaken(phone)
    /\ ~HasMessage(language, "confirmation")
    /\ patients' = Append(patients, NewFormPatient(phone, language))
    /\ medications' = Append(medications, NewMedication(phone, times))
    /\ last' = [Post(phone) EXCEPT !.times = times,
                                   !.persisted = TRUE, !.raised = TRUE,
                                   !.resp = ServerError]
    /\ UNCHANGED <<adherence, now, workerVars, pending>>

\* an add_patient that commits the medication apart from the patient: for a
\* stored number the medication row stays
AddPatientTwoCommits(phone) ==
    /\ PhoneTaken(phone)
    /\ medications' = Append(medications, NewMedication(phone, <<"00:00">>))
    /\ last' = [Post(phone) EXCEPT !.raised = TRUE, !.resp = ServerError]
    /\ UNCHANGED <<patients, adherence, now, workerVars, pending>>

\* POST for a stored number: the commit hits the unique constraint
AddPatientIntegrityError(phone) ==
    /\ PhoneTaken(phone)
    /\ last' = [Post(phone) EXCEPT !.raised = TRUE, !.resp = ServerError]
    /\ UNCHANGED <<dbVars, now, workerVars, pending>>

AddPatientPost ==
    \E ph \in Phones :
        \/ \E in \in AddInputs, apiOk \in BOOLEAN :
               AddPatient(<<ph>>, in.language, in.times, apiOk)
        \/ \E in \in AddInputs : AddPatientKeyError(<<ph>>, in.language, in.times)
        \/ AddPatientIntegrityError(<<ph>>)

\* -------------------------------------------------- get_dashboard_stats
\* the date of a time: datetime.today().date(), db.func.date(scheduled_time)
Date(t) == AbsMin(t) \div MinPerDay

\* Adherence.query.filter(date(scheduled_time) == today).count() over the first
\* n rows
RECURSIVE RemindersToday(_, _)
RemindersToday(n, today) ==
    IF n = 0 THEN 0
    ELSE RemindersToday(n - 1, today)
         + (IF Date(adherence[n].scheduled_time) = today THEN 1 ELSE 0)

\* a count of the taken records without the date filter
RECURSIVE TakenEver(_, _)
TakenEver(n, today) ==
    IF n = 0 THEN 0
    ELSE TakenEver(n - 1, today) + (IF adherence[n].taken THEN 1 ELSE 0)

\* Adherence.query.filter(date(scheduled_time) == today, taken == True).count()
\* over the first n rows
RECURSIVE TakenToday(_, _)
TakenToday(n, today) ==
    IF n = 0 THEN 0
    ELSE TakenToday(n - 1, today)
         + (IF Date(adherence[n].scheduled_time) = today /\ adherence[n].taken
            THEN 1 ELSE 0)

\* (taken_today / reminders_today * 100) if reminders_today > 0 else 0, as the
\* fraction num / den
AdherenceRate(taken_today, reminders_today) ==
    IF reminders_today > 0
    THEN [num |-> taken_today * 100, den |-> reminders_today]
    ELSE [num |-> 0, den |-> 1]

\* the dictionary get_dashboard_stats returns
GetDashboardStats ==
    LET today == Date(now)
        reminders_today == RemindersToday(Len(adherence), today)
        taken_today == TakenToday(Len(adherence), today)
    IN  [patients |-> Len(patients),
         active_meds |-> Len(ActiveIds(Len(medications))),
         reminders_today |-> reminders_today,
         taken_today |-> taken_today,
         adherence_rate |-> AdherenceRate(taken_today, reminders_today),
         today |-> today]

\* ------------------------------------------------------ dashboard routes
\* GET of a page that shows the statistics
Dashboard ==
    /\ last' = [NoRequest EXCEPT !.op = "dashboard", !.stats = GetDashboardStats]
    /\ UNCHANGED <<dbVars, now, workerVars, pending>>

\* ---------------------------------------------------------------- specs
\* the whole program
Next ==
    \/ Tick
    \/ Worker
    \/ Webhook
    \/ AddPatientPost
    \/ Dashboard

Spec == Init /\ [][Next]_vars

\* The clock, the worker thread and add_patient.  The worker reads the Medication
\* rows and the Patient row of each medication's owner; add_patient is the one
\* writer of both, a webhook request stores Patient rows for numbers that own no
\* medication.
NextWorker ==
    \/ Tick
    \/ Worker
    \/ AddPatientPost

SpecWorker == Init /\ [][NextWorker]_vars

\* The same, with a clock that keeps running and a worker thread that keeps being
\* scheduled.
SpecWorkerFair == SpecWorker /\ WF_vars(Tick) /\ WF_vars(Worker)

\* The request threads: the two routes that write the tables.  Neither reads the
\* clock or anything the worker writes.
NextWeb ==
    \/ Webhook
    \/ AddPatientPost

SpecWeb == Init /\ [][NextWeb]_vars

\* get_dashboard_stats over the tables it reads: the Adherence table holds any
\* records of the two days and the clock runs.
AdherenceRows ==
    [patient_phone : {<<"+27821">>}, medication : {MedName},
     scheduled_time : ScheduledTimes, taken : BOOLEAN, responded_at : {"none"}]

RECURSIVE Tables(_)
Tables(n) ==
    IF n = 0 THEN {<<>>}
    ELSE Tables(n - 1)
         \cup {Append(t, r) : t \in {u \in Tables(n - 1) : Len(u) = n - 1},
                               r \in AdherenceRows}

InitStats ==
    /\ \/ patients = <<>> /\ medications = <<>>
       \/ patients = <<SeedPatient>> /\ medications = <<SeedMedication>>
    /\ adherence \in Tables(MaxRows)
    /\ now = 0
    /\ w_pc = "sleep"
    /\ w_wake = 0
    /\ w_at = 0
    /\ w_due = <<>>
    /\ w_i = 1
    /\ w_err = FALSE
    /\ w_ret = "none"
    /\ w_api = "none"
    /\ sent = EmptyBag
    /\ pending = EmptyBag
    /\ last = NoRequest

NextStats ==
    \/ Tick
    \/ Dashboard

SpecStats == InitStats /\ [][NextStats]_vars

\* The whole program within one minute: the worker thread and the request threads
\* while the clock stands still.
NextMinute ==
    \/ Worker
    \/ Webhook
    \/ AddPatientPost

SpecMinute == Init /\ [][NextMinute]_vars

\* ------------------------------------------------------------ the worker
\* the "HH:MM" string of a minute counted from tick 0
HourMinute(m) == HM[(m % MinPerDay) + 1]

\* the send_whatsapp calls the worker made for medication id at minute m
CallsFor(id, m) == {c \in BagToSet(sent) : c.med = id /\ c.minute = m}

\* C1, as claimed: when a scan is over, every medication it found active, with
\* the scan's current_time among its times and with a stored patient, has had a
\* send to that patient's phone in that scan.
C1_EveryDueMedSent ==
    w_pc = "sleep" =>
        \A k \in DOMAIN w_due :
            LET med == medications[w_due[k]]
            IN  (/\ med.active
                 /\ \E j \in DOMAIN med.times : med.times[j] = <<Strftime(w_at)>>
                 /\ \E i \in DOMAIN patients : patients[i].phone = med.patient_phone)
                => \E c \in CallsFor(w_due[k], AbsMin(w_at)) : c.to = med.patient_phone

\* C2: every reminder the worker sent went to the phone that owns a medication
\* which is active and has a times entry equal to the "HH:MM" string the scan
\* read; none went out for an inactive medication or for a minute that is no slot.
C2_OnlyActiveDue ==
    \A c \in BagToSet(sent) :
        /\ c.med \in DOMAIN medications
        /\ medications[c.med].active
        /\ medications[c.med].patient_phone = c.to
        /\ \E j \in DOMAIN medications[c.med].times :
               medications[c.med].times[j] = <<HourMinute(c.minute)>>

\* a reminder went out in a minute in which a stored patient's inactive
\* medication had a slot too
C2_Witness ==
    \E c \in BagToSet(sent), i \in DOMAIN medications :
        /\ ~medications[i].active
        /\ \E j \in DOMAIN medications[i].times :
               medications[i].times[j] = <<HourMinute(c.minute)>>
        /\ \E k \in DOMAIN patients : patients[k].phone = medications[i].patient_phone

\* C3, as claimed: consecutive scans are never more than one minute apart.  When
\* a scan that read minute m took less than a minute, the sleep that follows it
\* ends in minute m or m + 1, so that the next scan can still read m + 1.
C3_NoMinuteSkipped ==
    (w_pc = "sleep" /\ (w_wake - TicksPerMin) - w_at < TicksPerMin)
        => AbsMin(w_wake) <= AbsMin(w_at) + 1

Onboarding == <<"language_selection", "medication_name", "dosage", "schedule", "active">>

\* the state that follows st
Following(st) ==
    LET k == CHOOSE j \in DOMAIN Onboarding : Onboarding[j] = st
    IN  Onboarding[k + 1]

\* conversation_state of the patient stored for ph in table tbl
StateOf(tbl, ph) ==
    tbl[CHOOSE i \in DOMAIN tbl : tbl[i].phone = ph].conversation_state

\* the adherence records of ph with taken = true and a response timestamp
TakenRecords(tbl, ph) ==
    {i \in DOMAIN tbl :
        tbl[i].patient_phone = ph /\ tbl[i].taken /\ tbl[i].responded_at # "none"}

\* this step is the webhook answering a message of an already stored patient
ReplyHandled ==
    /\ last' # last
    /\ last'.op = "whatsapp"
    /\ last'.known
    /\ ~last'.raised

\* C5, as claimed: every onboarding reply the webhook handles moves the patient's
\* conversation state to the state that follows it in the order language_selection,
\* medication name, dosage, schedule, active.
C5_OneStatePerReply ==
    [][(ReplyHandled /\ StateOf(patients, last'.number) # "active")
          => StateOf(patients', last'.number)
                 = Following(StateOf(patients, last'.number))]_vars

\* C6, as claimed: a number whose first message and four onboarding replies
\* (language, medication name, dosage, times) the webhook has handled is in
\* conversation state 'active' and owns an active medication.
C6_OnboardedIsActive ==
    (last.op = "whatsapp" /\ ~last.raised /\ last.streak >= Len(Onboarding))
        => /\ StateOf(patients, last.number) = "active"
           /\ \E m \in DOMAIN medications :
                  /\ medications[m].patient_phone = last.number
                  /\ medications[m].active

\* C7, as claimed: when the webhook handles the message TAKEN of a patient in the
\* active state, the number of that patient's taken adherence records grows by one.
C7_TakenLogged ==
    [][(/\ ReplyHandled
        /\ last'.msg = <<"TAKEN">>
        /\ StateOf(patients, last'.number) = "active")
          => Cardinality(TakenRecords(adherence', last'.number))
                 = Cardinality(TakenRecords(adherence, last'.number)) + 1]_vars

\* C8: no two stored patients have the same phone number.
C8_PhoneUnique ==
    \A i, j \in DOMAIN patients :
        patients[i].phone = patients[j].phone => i = j

\* two first messages of one unknown number were in flight together, one of them
\* has stored the patient and the other one's commit has been refused
C8_Witness ==
    /\ last.op = "whatsapp"
    /\ ~last.known
    /\ last.raised
    /\ \E i \in DOMAIN patients :
           /\ patients[i].phone = last.number
           /\ patients[i].conversation_state = "language_selection"

\* C9: the webhook answers the generic error response when handling the message
\* raised and the empty response otherwise; no exception leaves the route.
C9_NeverPropagates ==
    last.op = "whatsapp" =>
        /\ last.resp # ServerError
        /\ last.raised => last.resp = ErrorResponse
        /\ ~last.raised => last.resp = EmptyResponse

\* a stored patient's message raised (no help text in the patient's language) and
\* was answered with the generic error response
C9_Witness ==
    /\ last.op = "whatsapp"
    /\ last.known
    /\ last.raised
    /\ last.resp = ErrorResponse

\* the sender's number: From without its 'whatsapp:' prefix
SenderNumber(from) ==
    IF from # <<>> /\ Head(from) = "whatsapp:" THEN Tail(from) ELSE from

\* C10: a webhook request whose handling succeeded made exactly one send_whatsapp
\* call, to the sender's number without the 'whatsapp:' prefix; one whose handling
\* raised made none.
C10_OneSendPerMessage ==
    last.op = "whatsapp" =>
        IF last.raised
        THEN last.sends = 0
        ELSE last.sends = 1 /\ last.to = SenderNumber(last.from)

\* the first message of an unknown number was handled and answered with one send
C10_Witness ==
    /\ last.op = "whatsapp"
    /\ ~last.known
    /\ ~last.raised
    /\ last.sends = 1
    /\ last.to = <<"+27822">>
    /\ last.reply = MESSAGES.english.welcome

\* ---------------------------------------------------------------------- C11
\* C11: a call of send_whatsapp makes exactly one delivery attempt, does not
\* raise but returns True when the API accepted the message and False when the
\* API failed, and a failed message is sent again neither by send_whatsapp nor
\* by its callers: a finished request made as many attempts as it sent
\* messages and sent at most one, and the worker made one attempt for each
\* medication and minute.
C11_OneAttemptNoRetry ==
    /\ last.attempts = last.sends
    /\ last.sends <= 1
    /\ last.sends = 1 =>
          /\ last.ret \in {"True", "False"}
          /\ last.ret = "True" <=> last.api = "ok"
    /\ \A c \in BagToSet(sent) : c.attempts = 1 /\ CopiesIn(c, sent) = 1
    /\ w_ret # "none" =>
          /\ w_ret \in {"True", "False"}
          /\ w_ret = "True" <=> w_api = "ok"

\* a request and the worker both had their message refused by the API, and the
\* worker has reached the end of its scan
C11_Witness ==
    /\ last.sends = 1
    /\ last.api = "failed"
    /\ last.ret = "False"
    /\ w_api = "failed"
    /\ w_ret = "False"
    /\ w_pc = "sleep"
    /\ BagCardinality(sent) = 1

\* ---------------------------------------------------------------------- C12
\* C12: the reminder worker never terminates, and whenever a scan raised an
\* exception the worker sleeps 60 seconds and then starts a new scan: it is
\* always either scanning or sleeping, and a failed scan that set the wake-up
\* time t is followed by a scan at or after t (for every t the clock reaches).
C12_ScansAgainAfterFailure ==
    /\ [](w_pc \in {"sleep", "loop"})
    /\ \A t \in 0..MaxTime : (w_err /\ w_wake = t) ~> (w_at >= t)

\* the worker is scanning again, a minute or more after a scan that raised
C12_Witness ==
    /\ w_err
    /\ w_pc = "loop"
    /\ w_at >= TicksPerMin
    /\ w_at >= w_wake

\* ---------------------------------------------------------------------- C13
\* the pieces of a list put together again with commas between them
RECURSIVE JoinComma(_)
JoinComma(pieces) ==
    IF Len(pieces) = 1 THEN pieces[1]
    ELSE pieces[1] \o <<",">> \o JoinComma(Tail(pieces))

\* a step in which add_patient answers "Patient added successfully!" for a
\* number that was not stored
AddedStep ==
    /\ last' # last
    /\ last'.op = "add_patient"
    /\ last'.resp = Added
    /\ PatientIds(last'.number) = {}

\* C13: a successful add_patient POST for a phone number not yet stored adds
\* exactly one patient, in state 'active', and exactly one medication, active,
\* with that phone as patient_phone and with the submitted times string split
\* at its commas as times; both rows appear in the same step, and no step shows
\* a new medication without its new patient.
C13_AddStoresPatientAndMedication ==
    [][ /\ AddedStep =>
            /\ Len(patients') = Len(patients) + 1
            /\ SubSeq(patients', 1, Len(patients)) = patients
            /\ patients'[Len(patients')].phone = last'.number
            /\ patients'[Len(patients')].conversation_state = "active"
            /\ Len(medications') = Len(medications) + 1
            /\ SubSeq(medications', 1, Len(medications)) = medications
            /\ LET med == medications'[Len(medications')]
               IN  /\ med.active = TRUE
                   /\ med.patient_phone = last'.number
                   /\ Len(med.times) >= 1
                   /\ JoinComma(med.times) = last'.times
                   /\ \A k \in DOMAIN med.times :
                          \A j \in DOMAIN med.times[k] : med.times[k][j] # ","
            /\ adherence' = adherence
        /\ medications' # medications =>
            /\ Len(patients') = Len(patients) + 1
            /\ Len(medications') = Len(medications) + 1
      ]_vars

\* add_patient has just stored +27822 with the times "00:01, 00:00" as the two
\* pieces "00:01" and " 00:00"
C13_Witness ==
    /\ last.op = "add_patient"
    /\ last.resp = Added
    /\ last.number = <<"+27822">>
    /\ last.times = <<"00:01", ",", " ", "00:00">>
    /\ medications # <<>>
    /\ medications[Len(medications)].patient_phone = <<"+27822">>
    /\ medications[Len(medications)].times = << <<"00:01">>, <<" ", "00:00">> >>
    /\ patients[Len(patients)].phone = <<"+27822">>

\* ---------------------------------------------------------------------- C14
\* the records get_dashboard_stats counts as reminders of the day it ran
RemindersOf(day) ==
    {k \in DOMAIN adherence : Date(adherence[k].scheduled_time) = day}

\* C14: get_dashboard_stats returns adherence_rate = taken_today /
\* reminders_today * 100 when reminders_today > 0 and 0 when reminders_today
\* = 0; taken_today counts a subset of the records reminders_today counts, so
\* the rate lies between 0 and 100.
C14_AdherenceRate ==
    last.op = "dashboard" =>
        LET st == last.stats
            rate == st.adherence_rate
        IN  /\ st.reminders_today = Cardinality(RemindersOf(st.today))
            /\ st.taken_today
                  = Cardinality({k \in RemindersOf(st.today) : adherence[k].taken})
            /\ st.taken_today <= st.reminders_today
            /\ rate.den > 0
            /\ st.reminders_today > 0 =>
                  rate.num * st.reminders_today = st.taken_today * 100 * rate.den
            /\ st.reminders_today = 0 => rate.num = 0
            /\ 0 <= rate.num
            /\ rate.num <= 100 * rate.den

\* the dashboard ran on the second day over records of both days, some of the
\* second day's taken and some not, and a taken record of the first day
C14_Witness ==
    /\ last.op = "dashboard"
    /\ last.stats.today = 1
    /\ last.stats.reminders_today = 2
    /\ last.stats.taken_today = 1
    /\ \E k \in DOMAIN adherence :
          adherence[k].taken /\ Date(adherence[k].scheduled_time) = 0

\* ---------------------------------------------------------------------- C15
\* the worker's sends of a day
SentOn(day) == {c \in BagToSet(sent) : c.minute \div MinPerDay = day}

\* C15: each reminder the worker sends is logged as an adherence record
\* carrying the patient, the medication and the scheduled time, so that the
\* dashboard value reminders_today equals the number of reminders sent on the
\* current date.
C15_RemindersLogged ==
    /\ \A c \in BagToSet(sent) :
          \E k \in DOMAIN adherence :
              /\ adherence[k].patient_phone = c.to
              /\ adherence[k].medication = medications[c.med].name
              /\ AbsMin(adherence[k].scheduled_time) = c.minute
    /\ GetDashboardStats.reminders_today = Cardinality(SentOn(Date(now)))

\* ---------------------------------------------------------------------- C16
\* this step ends a webhook request whose lookup found no patient for the number
FirstMessageDone ==
    /\ last' # last
    /\ last'.op = "whatsapp"
    /\ ~last'.known

\* C16: the first inbound message from a phone number with no stored patient,
\* whatever its body, creates exactly one patient for that phone, in state
\* 'language_selection', and is answered with the English welcome message; it
\* creates no medication and no adherence record.
C16_FirstMessageWelcomed ==
    [][FirstMessageDone =>
          /\ Len(patients') = Len(patients) + 1
          /\ SubSeq(patients', 1, Len(patients)) = patients
          /\ patients'[Len(patients')].phone = last'.number
          /\ patients'[Len(patients')].conversation_state = "language_selection"
          /\ Cardinality({i \in DOMAIN patients' :
                            patients'[i].phone = last'.number}) = 1
          /\ ~last'.raised
          /\ last'.sends = 1
          /\ last'.to = last'.number
          /\ last'.reply = MESSAGES.english.welcome
          /\ medications' = medications
          /\ adherence' = adherence]_vars

\* ---------------------------------------------------------------------- C17
\* the medication at position k of the scan is due, with a stored patient
DueAt(k) ==
    /\ IsDue(medications[w_due[k]], Strftime(w_at))
    /\ PatientIds(medications[w_due[k]].patient_phone) # {}

\* the handling of the medication at position k fails at the template lookup
FailsAt(k) ==
    /\ DueAt(k)
    /\ ~HasMessage(FirstPatient(medications[w_due[k]].patient_phone).language,
                   "reminder")

\* C17: a failure while handling one due medication in a worker scan (a failed
\* send, or a template lookup that fails for the patient's language) does not
\* prevent the reminders of the other due medications of that scan from being
\* attempted: when the worker sleeps after a scan, every medication of the scan
\* that is due and whose own handling does not fail has a send in the scan's
\* minute.
C17_FailureIsolated ==
    (w_pc = "sleep" /\ w_due # <<>>) =>
        \A k \in DOMAIN w_due :
            (DueAt(k) /\ ~FailsAt(k)) => CallsFor(w_due[k], AbsMin(w_at)) # {}

\* ---------------------------------------------------------------------- C18
\* the languages of the message table and the keys the operations look up
Languages == {"english", "zulu"}
LookedUp == {"welcome", "confirmation", "reminder", "help"}

\* C18: for every language of the message table and every message key an
\* operation looks up the lookup succeeds, and every inbound message from an
\* already stored patient with a supported language is answered with the help
\* text in that patient's language.
C18_EveryLookupSucceeds ==
    /\ \A lang \in Languages : \A key \in LookedUp : HasMessage(lang, key)
    /\ (/\ last.op = "whatsapp"
        /\ last.known
        /\ PatientIds(last.number) # {}
        /\ FirstPatient(last.number).language \in Languages)
       => /\ ~last.raised
          /\ last.sends = 1
          /\ last.reply = MESSAGES[FirstPatient(last.number).language].help

\* ---------------------------------------------------------------------- C19
\* this step ends a webhook request whose lookup found a stored patient
KnownMessageDone ==
    /\ last' # last
    /\ last'.op = "whatsapp"
    /\ last'.known

AddForStoredDone ==
    /\ last' # last
    /\ last'.op = "add_patient"
    /\ PatientIds(last'.number) # {}

\* C20: an add_patient POST whose phone number is already stored (by an
\* earlier add_patient or by a first webhook message) persists neither a patient
\* nor a medication: the patient, medication and adherence tables are unchanged
\* and no confirmation message is sent.
C20_AddForStoredPersistsNothing ==
    [][AddForStoredDone =>
          /\ patients' = patients
          /\ medications' = medications
          /\ adherence' = adherence
          /\ ~last'.persisted
          /\ last'.sends = 0
          /\ last'.attempts = 0
          /\ last'.resp # Added]_vars

\* add_patient was refused for a number that a first webhook message had stored
C20_Witness ==
    /\ last.op = "add_patient"
    /\ last.raised
    /\ ~last.persisted
    /\ last.sends = 0
    /\ PatientIds(last.number) # {}
    /\ FirstPatient(last.number).conversation_state = "language_selection"
    /\ \A i \in DOMAIN medications : medications[i].patient_phone # last.number

\* ---------------------------------------------------------------------- C21
\* C21: whenever an add_patient POST has persisted the patient and the
\* medication, the request answers "Patient added successfully!"; a failure of
\* the confirmation step after the commit (a failed send, or no confirmation
\* template for the submitted language) neither changes that answer nor leaves
\* the rows persisted behind an error response.
C21_PersistedMeansAdded ==
    (last.op = "add_patient" /\ last.persisted) =>
        /\ last.resp = Added
        /\ ~last.raised

\* ---------------------------------------------------------------------- C22
\* the medications whose patient_phone is ph
MedicationsOf(ph) == {i \in DOMAIN medications : medications[i].patient_phone = ph}

\* C22: in every reachable state each medication's patient_phone equals the
\* phone of a stored patient and each patient owns at most one medication, so
\* the worker's patient lookup for a due medication never comes back empty.
C22_MedicationHasOnePatient ==
    /\ \A i \in DOMAIN medications :
          \E j \in DOMAIN patients : patients[j].phone = medications[i].patient_phone
    /\ \A j \in DOMAIN patients : Cardinality(MedicationsOf(patients[j].phone)) <= 1
    /\ (w_pc = "loop" /\ w_i <= Len(w_due) /\ IsDue(CurMed, Strftime(w_at))) =>
          \E j \in DOMAIN patients : patients[j].phone = CurMed.patient_phone

\* the worker is at a due medication of a patient stored by add_patient, while
\* a second add_patient for that number was refused and another number was
\* stored by a webhook message and owns no medication
C22_Witness ==
    /\ w_pc = "loop"
    /\ w_i <= Len(w_due)
    /\ IsDue(CurMed, Strftime(w_at))
    /\ Len(patients) = 2
    /\ \E j \in DOMAIN patients :
          /\ patients[j].conversation_state = "language_selection"
          /\ MedicationsOf(patients[j].phone) = {}
    /\ last.op = "add_patient"
    /\ last.raised
    /\ ~last.persisted
    /\ last.number = CurMed.patient_phone

====
